---- MODULE Spec2Model ----
(***************************************************************************)
(* CleanMedia: the metadata build (modules/metadata_builder.py with the    *)
(* subtitle and video scanners), the playback controller                   *)
(* (modules/player_overlay.py) and the processing thread of the GUI        *)
(* (gui/launcher_gui.py).                                                  *)
(*                                                                         *)
(* Time is counted in units of 50 ms, the epsilon of the controller's tick *)
(* guard: 0.05 s = 1 unit, the loop's sleep of 0.1 s = 2 units, one second *)
(* = 20 units.  Scores and thresholds are counted in hundredths.           *)
(***************************************************************************)
EXTENDS Integers, Sequences, FiniteSets, TLC

VARIABLES
    filters,                \* config/filters.json as load_filters() returns it
    subtitle,               \* the subtitle input: path given?, file there?, cues
    video,                  \* the video input: file there?, size, fps, frames
    file,                   \* the metadata JSON file on disk
    build_pc,               \* "start" | "done": build_media_metadata has run
    metadata,               \* the dict build_media_metadata returns
    grouped_actions,        \* the grouped list the build renders in the report
    subtitle_scan,          \* the last call of parse_and_filter_subtitles: its result
    video_scan,             \* the last call of scan_video_for_content: what it did
    ctl,                    \* "none" | "Idle" | "Running" | "Finished" | "crashed"
    actions,                \* MediaPlaybackController.actions
    current_action_index,   \* MediaPlaybackController.current_action_index
    last_action_time,       \* MediaPlaybackController.last_action_time
    log_callback,           \* "unset" (no attribute yet) | "None" | "cb"
    current_playback_time,  \* the clock value of the last tick (the loop's local)
    simulated_duration,     \* the loop's local of that name
    applied,                \* indices handed to _apply_action, in order (its log lines)
    skip_slept,             \* time the last tick spent asleep inside _apply_action
    stop_logged,            \* stop() has written "Simulated player stopped."
    process_button,         \* state of the "Process Media" button: "normal" | "disabled"
    tk_clicks,              \* clicks on the button queued for the Tk main loop
    tk_after,               \* callbacks scheduled with master.after(0, ...) and not yet run
    workers,                \* the processing threads started, each with its position
    clicks                  \* clicks made so far

vars == <<filters, subtitle, video, file, build_pc, metadata, grouped_actions,
          subtitle_scan, video_scan, ctl, actions, current_action_index, last_action_time, log_callback,
          current_playback_time, simulated_duration, applied, skip_slept,
          stop_logged, process_button, tk_clicks, tk_after, workers, clicks>>

gui_vars == <<process_button, tk_clicks, tk_after, workers, clicks>>
build_vars == <<build_pc, metadata, grouped_actions>>
input_vars == <<filters, subtitle, video>>
scan_vars == <<subtitle_scan, video_scan>>
ctl_vars == <<ctl, actions, current_action_index, last_action_time, log_callback,
              current_playback_time, simulated_duration, applied, skip_slept>>

-----------------------------------------------------------------------------
(* Bounds of the model *)

\* the sleeps of the playback loop overrun by 0..MaxLag units
MaxLag == 1
\* a direct tick is given a clock value in 0..MaxTick
MaxTick == 9
\* the random part of a score repeats with this period over the sample instants
NoisePeriod == 2
\* the user clicks the "Process Media" button at most MaxClicks times
MaxClicks == 4

-----------------------------------------------------------------------------
(* Program constants *)

EPSILON == 1
TICK_SLEEP == 2
Second == 20 * EPSILON
SIMULATED_DURATION == 60 * Second
TRAILING_BUFFER == 5 * Second
MERGE_TOLERANCE == 1 * Second
SAMPLE_DURATION == 1 * Second
SIMULATED_FPS == 25
SIMULATED_FRAME_COUNT == 25 * 60
PLACEHOLDER_SIZE == 100
NOISE == 5

\* the value of a key a dict does not hold
NoKey == "<absent>"
NoNumber == 0 - 1

Max(a, b) == IF a >= b THEN a ELSE b
Min(a, b) == IF a <= b THEN a ELSE b

-----------------------------------------------------------------------------
(* The action dicts the scanners emit and the controller reads *)

Event(type, start, end, conf, suggestion, word, text, taken) ==
    [type |-> type, start_time |-> start, end_time |-> end, confidence |-> conf,
     action_suggestion |-> suggestion, matched_word |-> word,
     original_text |-> text, action_taken |-> taken]

\* sorted(xs, key=lambda x: x['start_time']) and list.sort(key=...): a stable
\* sort, computed by insertion from the left
RECURSIVE InsertByStart(_, _)
InsertByStart(sorted, a) ==
    IF sorted = <<>> THEN <<a>>
    ELSE IF sorted[Len(sorted)]["start_time"] <= a["start_time"]
         THEN Append(sorted, a)
         ELSE Append(InsertByStart(SubSeq(sorted, 1, Len(sorted) - 1), a),
                     sorted[Len(sorted)])

RECURSIVE SortByStartFrom(_, _, _)
SortByStartFrom(xs, i, acc) ==
    IF i > Len(xs) THEN acc
    ELSE SortByStartFrom(xs, i + 1, InsertByStart(acc, xs[i]))

\* as SortByStart, leaving the list in the order given
SortByStartOmitted(xs) == xs

SortByStart(xs) == SortByStartFrom(xs, 1, <<>>)

-----------------------------------------------------------------------------
(* modules/subtitle_parser.py *)

\* re.IGNORECASE over the words of the model
Lower(w) ==
    CASE w = "Damn" -> "damn"
      [] w = "Hell" -> "hell"
      [] OTHER -> w

\* as IsMatch, without the word boundaries: "hell" is found in "hello"
IsMatchInsideWords(word, word_list) ==
    \E i \in 1..Len(word_list) :
        \/ Lower(word_list[i]) = Lower(word)
        \/ Lower(word_list[i]) = "hell" /\ Lower(word) = "hello"

\* \b(w1|w2|...)\b on a cue whose text is a sequence of words
IsMatch(word, word_list) ==
    \E i \in 1..Len(word_list) : Lower(word_list[i]) = Lower(word)

RECURSIVE MatchPositions(_, _, _)
MatchPositions(content, word_list, i) ==
    IF i > Len(content) THEN <<>>
    ELSE (IF IsMatch(content[i], word_list) THEN <<i>> ELSE <<>>)
         \o MatchPositions(content, word_list, i + 1)

\* as CueActions, with one action for a cue that has matches, for its first
CueActionsOnePerCue(sub, settings) ==
    LET m == MatchPositions(sub.content, settings.word_list, 1)
    IN  [k \in 1..(IF m = <<>> THEN 0 ELSE 1) |->
            Event("profanity_mute", sub.start, sub.end, NoNumber, settings.action,
                  sub.content[m[k]], sub.content,
                  <<sub.content[m[k]], settings.replace_with>>)]

\* one action per match of the cue, each spanning the whole cue
CueActions(sub, settings) ==
    LET m == MatchPositions(sub.content, settings.word_list, 1)
    IN  [k \in 1..Len(m) |->
            Event("profanity_mute", sub.start, sub.end, NoNumber, settings.action,
                  sub.content[m[k]], sub.content,
                  <<sub.content[m[k]], settings.replace_with>>)]

\* as FilteredCue, replacing the first match of the cue only
FilteredCueFirstOnly(sub, settings) ==
    LET m == MatchPositions(sub.content, settings.word_list, 1)
    IN  [sub EXCEPT !.content =
            [i \in 1..Len(sub.content) |->
                IF m # <<>> /\ i = m[1]
                THEN settings.replace_with ELSE sub.content[i]]]

\* profanity_regex.sub(replace_with, text)
FilteredCue(sub, settings) ==
    [sub EXCEPT !.content =
        [i \in 1..Len(sub.content) |->
            IF IsMatch(sub.content[i], settings.word_list)
            THEN settings.replace_with ELSE sub.content[i]]]

RECURSIVE AllCueActions(_, _, _)
AllCueActions(subs, settings, i) ==
    IF i > Len(subs) THEN <<>>
    ELSE CueActions(subs[i], settings) \o AllCueActions(subs, settings, i + 1)

\* as parse_and_filter_subtitles, without the early return for a disabled
\* filter
parse_and_filter_subtitles_unguarded(sub_file, flt) ==
    LET settings == flt.profanity
        loaded == IF sub_file.exists THEN sub_file.cues ELSE <<>>
    IN  IF settings.word_list = <<>>
        THEN [original |-> loaded, filtered |-> loaded, actions |-> <<>>]
        ELSE [original |-> loaded,
              filtered |-> [i \in 1..Len(loaded) |-> FilteredCue(loaded[i], settings)],
              actions |-> AllCueActions(loaded, settings, 1)]

\* the triple (original, filtered, actions) parse_and_filter_subtitles returns
parse_and_filter_subtitles(sub_file, flt) ==
    LET settings == flt.profanity
        loaded == IF sub_file.exists THEN sub_file.cues ELSE <<>>
    IN  IF ~settings.enabled \/ settings.word_list = <<>>
        THEN [original |-> loaded, filtered |-> loaded, actions |-> <<>>]
        ELSE IF ~sub_file.exists
        THEN [original |-> <<>>, filtered |-> <<>>, actions |-> <<>>]
        ELSE [original |-> loaded,
              filtered |-> [i \in 1..Len(loaded) |-> FilteredCue(loaded[i], settings)],
              actions |-> AllCueActions(loaded, settings, 1)]

\* no call of parse_and_filter_subtitles so far
NotParsed == [called |-> FALSE, original |-> <<>>, filtered |-> <<>>, actions |-> <<>>]

\* a call of parse_and_filter_subtitles and the triple it returned
SubtitleScan(sub_file, flt) ==
    LET r == parse_and_filter_subtitles(sub_file, flt)
    IN  [called |-> TRUE, original |-> r.original, filtered |-> r.filtered,
         actions |-> r.actions]

-----------------------------------------------------------------------------
(* modules/video_scanner.py *)

\* the table of simulated detections: seconds and hundredths
simulated_events ==
    << [start_s |-> 20, end_s |-> 25, type |-> "nudity",   confidence_base |-> 90],
       [start_s |-> 40, end_s |-> 42, type |-> "nudity",   confidence_base |-> 80],
       [start_s |-> 30, end_s |-> 35, type |-> "violence", confidence_base |-> 95],
       [start_s |-> 50, end_s |-> 53, type |-> "violence", confidence_base |-> 85] >>

\* the score of one category at second s: the last table entry of that type
\* covering s sets it, base plus the random part, clamped to [0, 1]
RECURSIVE ScoreFrom(_, _, _, _, _)
ScoreFrom(type, s, rnd, e, score) ==
    IF e > Len(simulated_events) THEN score
    ELSE LET ev == simulated_events[e]
             hit == ev.start_s <= s /\ s < ev.end_s /\ ev.type = type
         IN  ScoreFrom(type, s, rnd, e + 1,
                 IF hit THEN Max(0, Min(100, ev.confidence_base + rnd)) ELSE score)

Score(type, s, rnd) == ScoreFrom(type, s, rnd, 1, 0)

\* as VideoProperties, without the simulated properties for a video that is
\* missing, a placeholder or not opened: it has no frames
VideoPropertiesNoFallback(v) ==
    [fps |-> IF v.fps = 0 THEN SIMULATED_FPS ELSE v.fps,
     frame_count |-> v.frame_count]

\* the properties the scan works with: (fps, frame_count)
VideoProperties(v) ==
    LET simulated == ~v.exists \/ v.size < PLACEHOLDER_SIZE \/ ~v.opens
        fps0 == IF simulated THEN SIMULATED_FPS ELSE v.fps
    IN  [fps |-> IF fps0 = 0 THEN SIMULATED_FPS ELSE fps0,
         frame_count |-> IF simulated THEN SIMULATED_FRAME_COUNT ELSE v.frame_count]

\* as SampleActions, a score equal to the threshold not triggering
SampleActionsAboveOnly(s, flt, rnd) ==
    LET ns == Score("nudity", s, rnd)
        vs == Score("violence", s, rnd)
    IN  (IF flt.nudity.enabled /\ ns > flt.nudity.detection_threshold
         THEN << Event("nudity_detection", s * Second, s * Second + SAMPLE_DURATION,
                       ns, flt.nudity.action, NoKey, <<>>, <<>>) >>
         ELSE <<>>)
        \o
        (IF flt.violence.enabled /\ vs > flt.violence.detection_threshold
         THEN << Event("violence_detection", s * Second, s * Second + SAMPLE_DURATION,
                       vs, flt.violence.action, NoKey, <<>>, <<>>) >>
         ELSE <<>>)

\* the events one sample instant (second s) appends: nudity first, then violence
SampleActions(s, flt, rnd) ==
    LET ns == Score("nudity", s, rnd)
        vs == Score("violence", s, rnd)
    IN  (IF flt.nudity.enabled /\ ns >= flt.nudity.detection_threshold
         THEN << Event("nudity_detection", s * Second, s * Second + SAMPLE_DURATION,
                       ns, flt.nudity.action, NoKey, <<>>, <<>>) >>
         ELSE <<>>)
        \o
        (IF flt.violence.enabled /\ vs >= flt.violence.detection_threshold
         THEN << Event("violence_detection", s * Second, s * Second + SAMPLE_DURATION,
                       vs, flt.violence.action, NoKey, <<>>, <<>>) >>
         ELSE <<>>)

\* for i in range(frame_count): if i % frame_interval == 0: ... at i / fps seconds
RECURSIVE ScanFrom(_, _, _, _, _)
ScanFrom(i, props, flt, noise, acc) ==
    IF i >= props.frame_count THEN acc
    ELSE ScanFrom(i + props.fps, props, flt, noise,
                  acc \o SampleActions(i \div props.fps, flt,
                                       noise[(i \div props.fps) % NoisePeriod]))

scan_video_for_content(v, flt, noise) ==
    IF ~(flt.nudity.enabled \/ flt.violence.enabled) THEN <<>>
    ELSE ScanFrom(0, VideoProperties(v), flt, noise, <<>>)

\* the number of sample instants of the loop: the frames i < frame_count with
\* i % frame_interval = 0, which lie at the seconds 0, 1, ...
SampleCount(props) == (props.frame_count + props.fps - 1) \div props.fps

\* no call of scan_video_for_content so far
NotScanned ==
    [called |-> FALSE, opened |-> FALSE, simulated |-> FALSE, frame_count |-> 0,
     scores |-> <<>>, actions |-> <<>>]

\* as VideoScan, without the early return when both categories are disabled:
\* the file is opened and every sample instant is evaluated
VideoScanUnguarded(v, flt, noise) ==
    LET props == VideoProperties(v)
    IN  [called |-> TRUE,
         opened |-> v.exists /\ v.size >= PLACEHOLDER_SIZE,
         simulated |-> ~v.exists \/ v.size < PLACEHOLDER_SIZE \/ ~v.opens,
         frame_count |-> props.frame_count,
         scores |-> [k \in 1..SampleCount(props) |->
                       [nudity |-> NoNumber, violence |-> NoNumber]],
         actions |-> ScanFrom(0, props, flt, noise, <<>>)]

\* a call of scan_video_for_content: whether it handed the file to
\* cv2.VideoCapture, whether it fell back to the simulated properties, the
\* frame count it worked with, for every sample instant it evaluated (instant
\* s at position s + 1) the score each threshold test read (none where the
\* category is disabled and the test stops before the score) and the list it
\* returned
VideoScan(v, flt, noise) ==
    LET enabled == flt.nudity.enabled \/ flt.violence.enabled
        props == VideoProperties(v)
        n == IF enabled THEN SampleCount(props) ELSE 0
    IN  [called |-> TRUE,
         opened |-> enabled /\ v.exists /\ v.size >= PLACEHOLDER_SIZE,
         simulated |-> enabled /\ (~v.exists \/ v.size < PLACEHOLDER_SIZE \/ ~v.opens),
         frame_count |-> IF enabled THEN props.frame_count ELSE 0,
         scores |-> [k \in 1..n |->
                       [nudity |-> IF flt.nudity.enabled
                                   THEN Score("nudity", k - 1, noise[(k - 1) % NoisePeriod])
                                   ELSE NoNumber,
                        violence |-> IF flt.violence.enabled
                                     THEN Score("violence", k - 1, noise[(k - 1) % NoisePeriod])
                                     ELSE NoNumber]],
         actions |-> scan_video_for_content(v, flt, noise)]


-----------------------------------------------------------------------------
(* The metadata record as JSON text: json.dump / json.load *)

\* a dict is written as its (key, value) pairs in insertion order; a key the
\* dict does not hold is not written
EncodeAction(a) ==
    << <<"type", a.type>>, <<"start_time", a.start_time>>, <<"end_time", a.end_time>> >>
    \o (IF a.original_text # <<>> THEN << <<"original_text", a.original_text>> >> ELSE <<>>)
    \o (IF a.matched_word # NoKey THEN << <<"matched_word", a.matched_word>> >> ELSE <<>>)
    \o (IF a.action_taken # <<>> THEN << <<"action_taken", a.action_taken>> >> ELSE <<>>)
    \o (IF a.confidence # NoNumber THEN << <<"confidence", a.confidence>> >> ELSE <<>>)
    \o (IF a.action_suggestion # NoKey
        THEN << <<"action_suggestion", a.action_suggestion>> >> ELSE <<>>)

\* dict.get(key, default) on the pairs read back
RECURSIVE GetFrom(_, _, _, _)
GetFrom(pairs, key, default, i) ==
    IF i > Len(pairs) THEN default
    ELSE IF pairs[i][1] = key THEN pairs[i][2]
    ELSE GetFrom(pairs, key, default, i + 1)

Get(pairs, key, default) == GetFrom(pairs, key, default, 1)

DecodeAction(pairs) ==
    Event(Get(pairs, "type", NoKey), Get(pairs, "start_time", NoNumber),
          Get(pairs, "end_time", NoNumber), Get(pairs, "confidence", NoNumber),
          Get(pairs, "action_suggestion", NoKey), Get(pairs, "matched_word", NoKey),
          Get(pairs, "original_text", <<>>), Get(pairs, "action_taken", <<>>))

\* json.dump(metadata, f): the text of the record
JsonDump(md) ==
    << <<"filters_applied", md.filters_applied>>,
       <<"actions", [i \in 1..Len(md.actions) |-> EncodeAction(md.actions[i])]>> >>

\* the metadata file: no file, a file json.load rejects, or a JSON document
AbsentFile == [kind |-> "absent", doc |-> <<>>]
CorruptFile == [kind |-> "corrupt", doc |-> <<>>]
JsonFile(doc) == [kind |-> "json", doc |-> doc]

-----------------------------------------------------------------------------
(* modules/metadata_builder.py *)

\* as GroupFrom, never extending the open group
RECURSIVE GroupFromNoMerge(_, _, _, _)
GroupFromNoMerge(sorted, i, current_group, grouped) ==
    IF i > Len(sorted)
    THEN (IF current_group = <<>> THEN grouped ELSE grouped \o current_group)
    ELSE GroupFromNoMerge(sorted, i + 1, <<sorted[i]>>, grouped \o current_group)

\* as GroupFrom, leaving the end of the open group as it is when it merges
RECURSIVE GroupFromNoExtend(_, _, _, _)
GroupFromNoExtend(sorted, i, current_group, grouped) ==
    IF i > Len(sorted)
    THEN (IF current_group = <<>> THEN grouped ELSE grouped \o current_group)
    ELSE LET action == sorted[i]
         IN  IF current_group # <<>>
                /\ action.type = current_group[1].type
                /\ action.start_time <= current_group[1].end_time + MERGE_TOLERANCE
             THEN GroupFromNoExtend(sorted, i + 1, current_group, grouped)
             ELSE GroupFromNoExtend(sorted, i + 1, <<action>>, grouped \o current_group)

\* as GroupFrom, extending the open group whatever the type of the next action
RECURSIVE GroupFromAnyType(_, _, _, _)
GroupFromAnyType(sorted, i, current_group, grouped) ==
    IF i > Len(sorted)
    THEN (IF current_group = <<>> THEN grouped ELSE grouped \o current_group)
    ELSE LET action == sorted[i]
         IN  IF current_group # <<>>
                /\ action.start_time <= current_group[1].end_time + MERGE_TOLERANCE
             THEN GroupFromAnyType(sorted, i + 1,
                      << [current_group[1] EXCEPT
                            !.end_time = Max(current_group[1].end_time, action.end_time)] >>,
                      grouped)
             ELSE GroupFromAnyType(sorted, i + 1, <<action>>, grouped \o current_group)

\* the grouping pass over the sorted video actions: one open group, extended
\* while the next action has its type and starts within the tolerance
RECURSIVE GroupFrom(_, _, _, _)
GroupFrom(sorted, i, current_group, grouped) ==
    IF i > Len(sorted)
    THEN (IF current_group = <<>> THEN grouped ELSE grouped \o current_group)
    ELSE LET action == sorted[i]
         IN  IF current_group # <<>>
                /\ action.type = current_group[1].type
                /\ action.start_time <= current_group[1].end_time + MERGE_TOLERANCE
             THEN GroupFrom(sorted, i + 1,
                      << [current_group[1] EXCEPT
                            !.end_time = Max(current_group[1].end_time, action.end_time)] >>,
                      grouped)
             ELSE GroupFrom(sorted, i + 1, <<action>>, grouped \o current_group)

\* grouped_actions of the report; current_group is None (<<>>) or one dict
GroupVideoActions(video_actions) ==
    IF video_actions = <<>> THEN <<>>
    ELSE GroupFrom(SortByStart(video_actions), 1, <<>>, <<>>)

\* as BuildActions, without the final sort
BuildActionsUnsorted(sub_actions, video_actions) == sub_actions \o video_actions

\* metadata['actions'] after the scans and the final sort
BuildActions(sub_actions, video_actions) ==
    SortByStart(sub_actions \o video_actions)

NoMetadata == [filters_applied |-> <<>>, actions |-> <<>>]

\* as ScansSubtitles, without the test that the subtitle file is there
ScansSubtitlesUnchecked == subtitle.given /\ filters.profanity.enabled

\* the build hands the subtitle file to the parser: a path was given, the file
\* is there and the profanity filter is enabled
ScansSubtitles == subtitle.given /\ subtitle.exists /\ filters.profanity.enabled

\* the build hands the video to the scanner: the file is there and a category
\* is enabled
ScansVideo == video.exists /\ (filters.nudity.enabled \/ filters.violence.enabled)

\* build_media_metadata(video_path, subtitle_path): both scans, the report's
\* grouping, the sort, the save of the JSON file and the returned dict
build_media_metadata ==
    /\ build_pc = "start"
    /\ ctl = "none"
    /\ \E noise \in [0..(NoisePeriod - 1) -> {0 - NOISE, 0, NOISE}] :
       \E sub_scan \in
            {IF ScansSubtitles
             THEN SubtitleScan(subtitle, filters)
             ELSE NotParsed} :
       \E vid_scan \in
            {IF ScansVideo
             THEN VideoScan(video, filters, noise)
             ELSE NotScanned} :
       \E save \in {"saved", "open_fails", "write_fails"} :
       LET sub_actions == sub_scan.actions
           video_actions == vid_scan.actions
       IN   /\ subtitle_scan' = sub_scan
            /\ video_scan' = vid_scan
            /\ metadata' = [filters_applied |->
                               [profanity |-> filters.profanity.enabled,
                                nudity |-> filters.nudity.enabled,
                                violence |-> filters.violence.enabled],
                            actions |-> BuildActions(sub_actions, video_actions)]
            /\ grouped_actions' = GroupVideoActions(video_actions)
            /\ file' = CASE save = "saved" -> JsonFile(JsonDump(metadata'))
                         [] save = "open_fails" -> file
                         [] save = "write_fails" -> CorruptFile
    /\ build_pc' = "done"
    /\ UNCHANGED <<input_vars, gui_vars, ctl_vars, stop_logged>>

\* parse_and_filter_subtitles(subtitle_path, filters) called on its own, once,
\* as the test and the module's own main do
ParseSubtitles ==
    /\ subtitle.given
    /\ ~subtitle_scan.called
    /\ subtitle_scan' = SubtitleScan(subtitle, filters)
    /\ UNCHANGED <<input_vars, gui_vars, file, build_vars, video_scan, ctl_vars, stop_logged>>

\* scan_video_for_content(video_path, filters) called on its own, once, as the
\* module's own main does
ScanVideo ==
    /\ ~video_scan.called
    /\ \E noise \in [0..(NoisePeriod - 1) -> {0 - NOISE, 0, NOISE}] :
            video_scan' = VideoScan(video, filters, noise)
    /\ UNCHANGED <<input_vars, gui_vars, file, build_vars, subtitle_scan, ctl_vars, stop_logged>>

-----------------------------------------------------------------------------
(* modules/player_overlay.py: MediaPlaybackController *)

\* _log reads self.log_callback: an AttributeError while __init__ has not yet
\* assigned it, else the message goes to the callback or to print
LogRaises(cb) == cb = "unset"

\* _load_metadata: the dict read, None (no file), or the exception that leaves it
load_metadata(f, cb) ==
    CASE f.kind = "absent" -> [raised |-> FALSE, loaded |-> FALSE, doc |-> <<>>]
      [] f.kind = "json" -> [raised |-> FALSE, loaded |-> TRUE, doc |-> f.doc]
      [] f.kind = "corrupt" -> [raised |-> LogRaises(cb), loaded |-> FALSE, doc |-> <<>>]

\* sorted(self.metadata.get('actions', []), key=start_time) if self.metadata else []
LoadedActions(m) ==
    IF ~m.loaded \/ m.doc = <<>> THEN <<>>
    ELSE LET enc == Get(m.doc, "actions", <<>>)
         IN  SortByStart([i \in 1..Len(enc) |-> DecodeAction(enc[i])])

\* MediaPlaybackController(video_path, metadata_path)
Construct ==
    /\ ctl = "none"
    /\ LET m == load_metadata(file, log_callback)
       IN  IF m.raised
           THEN /\ ctl' = "crashed"
                /\ UNCHANGED <<actions, current_action_index, last_action_time,
                               log_callback>>
           ELSE /\ ctl' = "Idle"
                /\ current_action_index' = 0
                /\ last_action_time' = 0 - Second
                /\ log_callback' = "None"
                /\ actions' = LoadedActions(m)
    /\ UNCHANGED <<input_vars, gui_vars, file, build_vars, scan_vars, current_playback_time,
                   simulated_duration, applied, skip_slept, stop_logged>>

\* action.get("action_suggestion", action.get("action_taken", "no_specific_action"))
Suggestion(action) ==
    IF action.action_suggestion # NoKey THEN action.action_suggestion
    ELSE IF action.action_taken # <<>> THEN "<action_taken>"
    ELSE "no_specific_action"

\* as apply_action, without the sleep that simulates the jump of a skip
apply_action_no_sleep(action, t) ==
    [effect |-> IF action.type \in {"nudity_detection", "violence_detection"}
                   /\ action.action_suggestion = "skip_scene"
                THEN "skip" ELSE "none",
     slept |-> 0]

\* as apply_action, taking the suggestion alone: a skip_scene is a skip for an
\* event of any type
apply_action_any_type(action, t) ==
    LET s == Suggestion(action)
        skip == action.end_time - t
    IN  IF s = "skip_scene"
        THEN [effect |-> "skip", slept |-> IF skip > 0 THEN skip ELSE 0]
        ELSE IF s = "mute_audio" THEN [effect |-> "mute", slept |-> 0]
        ELSE IF s = "blur_region" THEN [effect |-> "blur", slept |-> 0]
        ELSE IF s = "replace_text" THEN [effect |-> "replace_text", slept |-> 0]
        ELSE [effect |-> "none", slept |-> 0]

\* as apply_action, a skip sleeping 0.05 s at most instead of up to the end of
\* the event
apply_action_short_skip(action, t) ==
    LET s == Suggestion(action)
        skip == action.end_time - t
    IN  IF action.type \in {"nudity_detection", "violence_detection"} /\ s = "skip_scene"
        THEN [effect |-> "skip", slept |-> IF skip > 0 THEN Min(skip, EPSILON) ELSE 0]
        ELSE [effect |-> "none", slept |-> 0]

\* _apply_action: what the player is made to do and how long the call sleeps
apply_action(action, t) ==
    LET s == Suggestion(action)
        skip == action.end_time - t
    IN  CASE action.type = "profanity_mute" ->
                [effect |-> IF s = "mute_audio" THEN "mute"
                            ELSE IF s = "replace_text" THEN "replace_text" ELSE "none",
                 slept |-> 0]
          [] action.type = "nudity_detection" ->
                IF s = "blur_region" THEN [effect |-> "blur", slept |-> 0]
                ELSE IF s = "skip_scene"
                THEN [effect |-> "skip", slept |-> IF skip > 0 THEN skip ELSE 0]
                ELSE [effect |-> "none", slept |-> 0]
          [] action.type = "violence_detection" ->
                IF s = "skip_scene"
                THEN [effect |-> "skip", slept |-> IF skip > 0 THEN skip ELSE 0]
                ELSE IF s = "mute_audio" THEN [effect |-> "mute", slept |-> 0]
                ELSE [effect |-> "none", slept |-> 0]
          [] OTHER -> [effect |-> "none", slept |-> 0]

\* as ScanActions, without the return after an action is applied: the scan goes
\* on to the following actions
RECURSIVE ScanActionsNoReturn(_, _, _, _, _)
ScanActionsNoReturn(acts, idx, last, t, app) ==
    IF idx >= Len(acts)
    THEN [index |-> idx, last |-> last, applied |-> app, slept |-> 0]
    ELSE LET action == acts[idx + 1]
         IN  IF action.start_time <= t /\ t < action.end_time
             THEN ScanActionsNoReturn(acts, idx + 1, t, t, Append(app, idx))
             ELSE IF action.start_time > t
             THEN [index |-> idx, last |-> last, applied |-> app, slept |-> 0]
             ELSE ScanActionsNoReturn(acts, idx + 1, last, t, app)

\* as ScanActions, without the increment of the index after an action is applied
RECURSIVE ScanActionsNoAdvance(_, _, _, _, _)
ScanActionsNoAdvance(acts, idx, last, t, app) ==
    IF idx >= Len(acts)
    THEN [index |-> idx, last |-> last, applied |-> app, slept |-> 0]
    ELSE LET action == acts[idx + 1]
         IN  IF action.start_time <= t /\ t < action.end_time
             THEN [index |-> idx, last |-> t, applied |-> Append(app, idx),
                   slept |-> apply_action(action, t).slept]
             ELSE IF action.start_time > t
             THEN [index |-> idx, last |-> last, applied |-> app, slept |-> 0]
             ELSE ScanActionsNoAdvance(acts, idx + 1, last, t, app)

\* as ScanActions, leaving last_action_time as it is when an action is applied
RECURSIVE ScanActionsKeepsLast(_, _, _, _, _)
ScanActionsKeepsLast(acts, idx, last, t, app) ==
    IF idx >= Len(acts)
    THEN [index |-> idx, last |-> last, applied |-> app, slept |-> 0]
    ELSE LET action == acts[idx + 1]
         IN  IF action.start_time <= t /\ t < action.end_time
             THEN [index |-> idx + 1, last |-> last, applied |-> Append(app, idx),
                   slept |-> apply_action(action, t).slept]
             ELSE IF action.start_time > t
             THEN [index |-> idx, last |-> last, applied |-> app, slept |-> 0]
             ELSE ScanActionsKeepsLast(acts, idx + 1, last, t, app)

\* as ScanActions, stopping at an action whose window has passed as it does at
\* one that has not started
RECURSIVE ScanActionsStopsAtStale(_, _, _, _, _)
ScanActionsStopsAtStale(acts, idx, last, t, app) ==
    IF idx >= Len(acts)
    THEN [index |-> idx, last |-> last, applied |-> app, slept |-> 0]
    ELSE LET action == acts[idx + 1]
         IN  IF action.start_time <= t /\ t < action.end_time
             THEN [index |-> idx + 1, last |-> t, applied |-> Append(app, idx),
                   slept |-> apply_action(action, t).slept]
             ELSE [index |-> idx, last |-> last, applied |-> app, slept |-> 0]

\* as ScanActions, moving the cursor past the action after the applied one too
RECURSIVE ScanActionsSkipsNext(_, _, _, _, _)
ScanActionsSkipsNext(acts, idx, last, t, app) ==
    IF idx >= Len(acts)
    THEN [index |-> idx, last |-> last, applied |-> app, slept |-> 0]
    ELSE LET action == acts[idx + 1]
         IN  IF action.start_time <= t /\ t < action.end_time
             THEN [index |-> Min(idx + 2, Len(acts)), last |-> t,
                   applied |-> Append(app, idx),
                   slept |-> apply_action(action, t).slept]
             ELSE IF action.start_time > t
             THEN [index |-> idx, last |-> last, applied |-> app, slept |-> 0]
             ELSE ScanActionsSkipsNext(acts, idx + 1, last, t, app)

\* as ScanActions, moving the cursor two places past an action whose window
\* has passed
RECURSIVE ScanActionsStaleDouble(_, _, _, _, _)
ScanActionsStaleDouble(acts, idx, last, t, app) ==
    IF idx >= Len(acts)
    THEN [index |-> idx, last |-> last, applied |-> app, slept |-> 0]
    ELSE LET action == acts[idx + 1]
         IN  IF action.start_time <= t /\ t < action.end_time
             THEN [index |-> idx + 1, last |-> t, applied |-> Append(app, idx),
                   slept |-> apply_action(action, t).slept]
             ELSE IF action.start_time > t
             THEN [index |-> idx, last |-> last, applied |-> app, slept |-> 0]
             ELSE ScanActionsStaleDouble(acts, idx + 2, last, t, app)

\* the while loop of _check_and_apply_actions from index idx on
RECURSIVE ScanActions(_, _, _, _, _)
ScanActions(acts, idx, last, t, app) ==
    IF idx >= Len(acts)
    THEN [index |-> idx, last |-> last, applied |-> app, slept |-> 0]
    ELSE LET action == acts[idx + 1]
         IN  IF action.start_time <= t /\ t < action.end_time
             THEN [index |-> idx + 1, last |-> t, applied |-> Append(app, idx),
                   slept |-> apply_action(action, t).slept]
             ELSE IF action.start_time > t
             THEN [index |-> idx, last |-> last, applied |-> app, slept |-> 0]
             ELSE ScanActions(acts, idx + 1, last, t, app)

\* as check_and_apply_actions, scanning from the first action on every call
check_and_apply_actions_rescan(acts, idx, last, t, app) ==
    IF t <= last + EPSILON
    THEN [index |-> idx, last |-> last, applied |-> app, slept |-> 0]
    ELSE ScanActions(acts, 0, last, t, app)

\* as check_and_apply_actions, without the test against last_action_time
check_and_apply_actions_unguarded(acts, idx, last, t, app) ==
    ScanActions(acts, idx, last, t, app)

\* as check_and_apply_actions, following the clock back: a clock value below
\* last_action_time starts the scan again at the first action
check_and_apply_actions_rewind(acts, idx, last, t, app) ==
    IF t < last
    THEN ScanActions(acts, 0, last, t, app)
    ELSE IF t <= last + EPSILON
    THEN [index |-> idx, last |-> last, applied |-> app, slept |-> 0]
    ELSE ScanActions(acts, idx, last, t, app)

\* _check_and_apply_actions(current_playback_time)
check_and_apply_actions(acts, idx, last, t, app) ==
    IF t <= last + EPSILON
    THEN [index |-> idx, last |-> last, applied |-> app, slept |-> 0]
    ELSE ScanActions(acts, idx, last, t, app)

RECURSIVE MaxEndFrom(_, _)
MaxEndFrom(acts, i) ==
    IF i = Len(acts) THEN acts[i].end_time
    ELSE Max(acts[i].end_time, MaxEndFrom(acts, i + 1))

\* as SimulatedDuration, without the floor of 60 seconds under a timeline
SimulatedDurationNoFloor(acts) ==
    IF acts = <<>> THEN SIMULATED_DURATION
    ELSE MaxEndFrom(acts, 1) + TRAILING_BUFFER

\* simulated_duration of _simulate_playback
SimulatedDuration(acts) ==
    IF acts = <<>> THEN SIMULATED_DURATION
    ELSE Max(SIMULATED_DURATION, MaxEndFrom(acts, 1) + TRAILING_BUFFER)

\* play(log_callback) up to the end of the first pass of the loop of
\* _simulate_playback, which reads the clock at 0 and checks for actions
Play ==
    /\ ctl = "Idle"
    /\ log_callback' = "cb"
    /\ simulated_duration' = SimulatedDuration(actions)
    /\ LET r == check_and_apply_actions(actions, current_action_index,
                                        last_action_time, 0, applied)
       IN  /\ current_playback_time' = 0
           /\ current_action_index' = r.index
           /\ last_action_time' = r.last
           /\ applied' = r.applied
           /\ skip_slept' = r.slept
    /\ ctl' = "Running"
    /\ UNCHANGED <<input_vars, gui_vars, file, build_vars, scan_vars, actions, stop_logged>>

\* the loop of _simulate_playback from one check to the next: the sleep, the
\* loop's exit once the time read has reached the duration, else the next
\* reading of the clock (real time: the last reading, the time slept in
\* _apply_action, the sleep and its overrun) and the check for actions
SimulateTick ==
    /\ ctl = "Running"
    /\ IF current_playback_time >= simulated_duration
       THEN /\ ctl' = "Finished"
            /\ UNCHANGED <<current_playback_time, current_action_index,
                           last_action_time, applied, skip_slept>>
       ELSE \E lag \in 0..MaxLag :
            LET t == current_playback_time + skip_slept + TICK_SLEEP + lag
                r == check_and_apply_actions(actions, current_action_index,
                                             last_action_time, t, applied)
            IN  /\ current_playback_time' = t
                /\ current_action_index' = r.index
                /\ last_action_time' = r.last
                /\ applied' = r.applied
                /\ skip_slept' = r.slept
                /\ ctl' = "Running"
    /\ UNCHANGED <<input_vars, gui_vars, file, build_vars, scan_vars, actions, log_callback,
                   simulated_duration, stop_logged>>

\* _check_and_apply_actions called with a clock value of the caller's choice
\* (a stepped clock), on a controller that is not playing
DirectTick ==
    /\ ctl = "Idle"
    /\ \E t \in 0..MaxTick :
        LET r == check_and_apply_actions(actions, current_action_index,
                                         last_action_time, t, applied)
        IN  /\ current_action_index' = r.index
            /\ last_action_time' = r.last
            /\ applied' = r.applied
            /\ skip_slept' = r.slept
            /\ current_playback_time' = t
    /\ UNCHANGED <<input_vars, gui_vars, file, build_vars, scan_vars, ctl, actions,
                   log_callback, simulated_duration, stop_logged>>

\* as Stop, releasing the player a second time when it was stopped before,
\* which raises
StopReleasesAgain ==
    /\ ctl \in {"Idle", "Running", "Finished"}
    /\ stop_logged' = TRUE
    /\ ctl' = IF stop_logged THEN "crashed" ELSE ctl
    /\ UNCHANGED <<input_vars, gui_vars, file, build_vars, scan_vars, actions,
                   current_action_index, last_action_time, log_callback,
                   current_playback_time, simulated_duration, applied, skip_slept>>

\* stop(): writes its log line through _log and does nothing else
Stop ==
    /\ ctl \in {"Idle", "Running", "Finished"}
    /\ IF LogRaises(log_callback)
       THEN ctl' = "crashed" /\ UNCHANGED stop_logged
       ELSE ctl' = ctl /\ stop_logged' = TRUE
    /\ UNCHANGED <<input_vars, gui_vars, file, build_vars, scan_vars, actions,
                   current_action_index, last_action_time, log_callback,
                   current_playback_time, simulated_duration, applied, skip_slept>>

-----------------------------------------------------------------------------
(* gui/launcher_gui.py: CleanMediaGUI *)

other_vars == <<input_vars, file, build_vars, scan_vars, ctl_vars, stop_logged>>

\* the user clicks "Process Media": Tk queues the click for the main loop
ClickProcessButton ==
    /\ clicks < MaxClicks
    /\ clicks' = clicks + 1
    /\ tk_clicks' = tk_clicks + 1
    /\ UNCHANGED <<process_button, tk_after, workers, other_vars>>

\* as start_processing_thread, leaving the button enabled
start_processing_thread_keeps_button ==
    /\ tk_clicks > 0
    /\ tk_clicks' = tk_clicks - 1
    /\ IF process_button = "disabled"
       THEN UNCHANGED workers
       ELSE workers' = Append(workers, "build")
    /\ UNCHANGED <<process_button, tk_after, clicks, other_vars>>

\* the main loop delivers a click to the button: a disabled button drops it,
\* an enabled one runs its command start_processing_thread, which disables
\* the button and starts a thread on _process_media_task
start_processing_thread ==
    /\ tk_clicks > 0
    /\ tk_clicks' = tk_clicks - 1
    /\ IF process_button = "disabled"
       THEN UNCHANGED <<process_button, workers>>
       ELSE /\ process_button' = "disabled"
            /\ workers' = Append(workers, "build")
    /\ UNCHANGED <<tk_after, clicks, other_vars>>

\* _process_media_logic in a worker: the build, then the replay when the user
\* asks for it, then the return (also the early returns and the except clause)
process_media_logic ==
    /\ \E w \in 1..Len(workers) :
        /\ workers[w] \in {"build", "replay"}
        /\ \E to \in (IF workers[w] = "build" THEN {"replay", "finally"}
                      ELSE {"finally"}) :
              workers' = [workers EXCEPT ![w] = to]
    /\ UNCHANGED <<process_button, tk_clicks, tk_after, clicks, other_vars>>

\* the finally clause of _process_media_task: master.after(0, ...) schedules
\* the callback that enables the button; the thread has still to return
process_media_task_finally ==
    /\ \E w \in 1..Len(workers) :
        /\ workers[w] = "finally"
        /\ workers' = [workers EXCEPT ![w] = "returning"]
    /\ tk_after' = tk_after + 1
    /\ UNCHANGED <<process_button, tk_clicks, clicks, other_vars>>

\* _process_media_task returns and its thread ends
WorkerReturns ==
    /\ \E w \in 1..Len(workers) :
        /\ workers[w] = "returning"
        /\ workers' = [workers EXCEPT ![w] = "ended"]
    /\ UNCHANGED <<process_button, tk_clicks, tk_after, clicks, other_vars>>

\* the main loop runs a scheduled callback: process_button.config(state="normal")
EnableProcessButton ==
    /\ tk_after > 0
    /\ tk_after' = tk_after - 1
    /\ process_button' = "normal"
    /\ UNCHANGED <<tk_clicks, workers, clicks, other_vars>>

-----------------------------------------------------------------------------
(* Inputs *)

ProfanityFilter(enabled, word_list, action) ==
    [enabled |-> enabled, word_list |-> word_list, replace_with |-> "[bleep]",
     action |-> action]

ContentFilter(enabled, threshold, action) ==
    [enabled |-> enabled, detection_threshold |-> threshold, action |-> action]

Cue(index, start, end, content) ==
    [index |-> index, start |-> start, end |-> end, content |-> content]

\* "This is a damn good movie." from 1.0 s to 3.5 s
CueDamn == Cue(1, 20, 70, <<"a", "damn", "good", "movie">>)
\* two matches in one cue, 4 s to 6 s
CueTwo == Cue(2, 80, 120, <<"Hell", "no", "Damn">>)
\* a cue inside the violence sample of second 30
CueInside == Cue(3, 604, 616, <<"damn">>)
\* no configured word
CueClean == Cue(4, 140, 180, <<"hello", "good">>)

NoSubtitle == [given |-> FALSE, exists |-> FALSE, cues |-> <<>>]
MissingSubtitle == [given |-> TRUE, exists |-> FALSE, cues |-> <<>>]
SubtitleFile(cues) == [given |-> TRUE, exists |-> TRUE, cues |-> cues]

MissingVideo == [exists |-> FALSE, size |-> 0, opens |-> FALSE, fps |-> 0, frame_count |-> 0]
PlaceholderVideo == [exists |-> TRUE, size |-> 41, opens |-> FALSE, fps |-> 0, frame_count |-> 0]
RealVideo(fps, seconds) ==
    [exists |-> TRUE, size |-> 1000000, opens |-> TRUE, fps |-> fps,
     frame_count |-> fps * seconds]
\* a file of some size that cv2.VideoCapture does not open
UnopenableVideo ==
    [exists |-> TRUE, size |-> 5000, opens |-> FALSE, fps |-> 0, frame_count |-> 0]

\* metadata files found on disk before the run: written by hand or by an
\* earlier build, times in units of 50 ms
FileOf(acts) ==
    JsonFile(JsonDump([filters_applied |-> [profanity |-> TRUE, nudity |-> TRUE,
                                            violence |-> TRUE],
                       actions |-> acts]))

Profanity(start, end, word, suggestion) ==
    Event("profanity_mute", start, end, NoNumber, suggestion, word, <<word>>,
          <<word, "[bleep]">>)
Nudity(start, end, suggestion) ==
    Event("nudity_detection", start, end, 85, suggestion, NoKey, <<>>, <<>>)
Violence(start, end, suggestion) ==
    Event("violence_detection", start, end, 90, suggestion, NoKey, <<>>, <<>>)

\* one violence scene to skip
FileSkip == FileOf(<< Violence(2, 6, "skip_scene") >>)
\* two events of one cue, then a blur that begins while they are active
FileOverlap ==
    FileOf(<< Profanity(1, 4, "damn", "mute_audio"), Profanity(1, 4, "hell", "mute_audio"),
              Nudity(3, 7, "blur_region") >>)
\* a cue inside a scene that is skipped, and one after it
FileNested ==
    FileOf(<< Nudity(1, 6, "skip_scene"), Profanity(2, 4, "damn", "replace_text"),
              Profanity(5, 8, "hell", "mute_audio") >>)
\* written by hand, not in time order
FileUnsorted ==
    FileOf(<< Violence(5, 7, "mute_audio"), Profanity(1, 3, "damn", "mute_audio") >>)
\* a type and a suggestion the controller does not know
FileUnknown ==
    FileOf(<< Event("gore_detection", 1, 3, 50, "skip_scene", NoKey, <<>>, <<>>),
              Nudity(4, 6, "pixelate") >>)
\* written by hand with the two times of an event exchanged: it starts after
\* the simulated duration and ends before it
FileInverted == FileOf(<< Violence(1400, 40, "mute_audio") >>)
\* an event that ends after the 60 seconds of the simulated duration
FileLate == FileOf(<< Violence(1190, 1230, "mute_audio") >>)
\* a cue and a scene to skip that start together, and a cue inside the scene
FileSimultaneous ==
    FileOf(<< Profanity(1, 12, "damn", "mute_audio"), Nudity(1, 12, "skip_scene"),
              Profanity(7, 10, "hell", "mute_audio") >>)
\* "{}"
FileEmptyDict == JsonFile(<<>>)

MetadataFiles ==
    {AbsentFile, CorruptFile, FileEmptyDict, FileSkip, FileOverlap, FileNested,
     FileUnsorted, FileUnknown, FileInverted, FileLate, FileSimultaneous}

InitWith(Filters, Subtitles, Videos, Files) ==
    /\ filters \in Filters
    /\ subtitle \in Subtitles
    /\ video \in Videos
    /\ file \in Files
    /\ build_pc = "start"
    /\ metadata = NoMetadata
    /\ grouped_actions = <<>>
    /\ subtitle_scan = NotParsed
    /\ video_scan = NotScanned
    /\ ctl = "none"
    /\ actions = <<>>
    /\ current_action_index = 0
    /\ last_action_time = 0 - Second
    /\ log_callback = "unset"
    /\ current_playback_time = 0
    /\ simulated_duration = SIMULATED_DURATION
    /\ applied = <<>>
    /\ skip_slept = 0
    /\ stop_logged = FALSE
    /\ process_button = "normal"
    /\ tk_clicks = 0
    /\ tk_after = 0
    /\ workers = <<>>
    /\ clicks = 0

\* the configurations of the build runs
BuildFilters ==
    [profanity : {ProfanityFilter(FALSE, <<"damn", "hell">>, "mute_audio"),
                  ProfanityFilter(TRUE, <<>>, "mute_audio"),
                  ProfanityFilter(TRUE, <<"damn", "hell">>, "mute_audio")},
     nudity : {ContentFilter(FALSE, 75, "blur_region"),
               ContentFilter(TRUE, 75, "blur_region"),
               ContentFilter(TRUE, 85, "skip_scene")},
     violence : {ContentFilter(FALSE, 65, "skip_scene"),
                 ContentFilter(TRUE, 65, "skip_scene"),
                 ContentFilter(TRUE, 85, "skip_scene"),
                 ContentFilter(TRUE, 85, "mute_audio")}]

BuildSubtitles ==
    {NoSubtitle, MissingSubtitle, SubtitleFile(<<CueInside, CueTwo, CueClean>>),
     SubtitleFile(<<CueDamn>>)}

BuildVideos == {MissingVideo, PlaceholderVideo, RealVideo(30, 32)}

\* thresholds of 0: every sample reaches them, in both categories
ZeroThresholdFilters ==
    [profanity : {ProfanityFilter(TRUE, <<"damn", "hell">>, "mute_audio")},
     nudity : {ContentFilter(TRUE, 0, "blur_region"),
               ContentFilter(TRUE, 75, "blur_region")},
     violence : {ContentFilter(TRUE, 0, "skip_scene"),
                 ContentFilter(FALSE, 0, "skip_scene")}]

\* the inputs of the build runs, and short videos scanned with thresholds of 0
InitBuild ==
    \/ InitWith(BuildFilters, BuildSubtitles, BuildVideos, {AbsentFile, FileUnsorted})
    \/ InitWith(ZeroThresholdFilters, {NoSubtitle, SubtitleFile(<<CueDamn>>)},
                {RealVideo(30, 3), RealVideo(25, 4)}, {AbsentFile})

NextBuild == build_media_metadata \/ Construct

\* build runs over many configurations and inputs, up to the controller's
\* construction
SpecBuild == InitBuild /\ [][NextBuild]_vars

\* the configuration of the replay runs: profanity is muted and the violence
\* scenes are skipped
ReplayFilters ==
    {[profanity |-> ProfanityFilter(TRUE, <<"damn", "hell">>, "mute_audio"),
      nudity |-> ContentFilter(FALSE, 75, "blur_region"),
      violence |-> ContentFilter(TRUE, 65, "skip_scene")]}

ReplaySubtitles == {SubtitleFile(<<CueInside, CueTwo, CueClean>>)}

\* a video of 31 seconds: its last sample is the first of a violence scene
ReplayVideos == {RealVideo(25, 31)}

Init == InitWith(ReplayFilters, ReplaySubtitles, ReplayVideos, MetadataFiles)

Next ==
    \/ build_media_metadata
    \/ Construct
    \/ Play
    \/ SimulateTick
    \/ Stop

\* a build (or none), then a controller on the metadata file and its playback
\* against the real clock
Spec == Init /\ [][Next]_vars

NextTick ==
    \/ build_media_metadata
    \/ Construct
    \/ DirectTick

\* the controller's tick driven by a stepped clock
SpecTick == Init /\ [][NextTick]_vars

\* the replay of the metadata files on disk with a clock that keeps advancing:
\* play() runs the loop of _simulate_playback to its end, every pass taking a
\* bounded time
NextLive ==
    \/ Construct
    \/ Play
    \/ SimulateTick
    \/ Stop

SpecLive == Init /\ [][NextLive]_vars /\ WF_vars(SimulateTick)

NextGui ==
    \/ ClickProcessButton
    \/ start_processing_thread
    \/ process_media_logic
    \/ process_media_task_finally
    \/ WorkerReturns
    \/ EnableProcessButton

\* the GUI's main loop, its "Process Media" button and the processing threads
\* it starts, in every interleaving
SpecGui ==
    InitWith(ReplayFilters, ReplaySubtitles, ReplayVideos, {AbsentFile})
        /\ [][NextGui]_vars

\* the configurations of the scanners called on their own; the replacement
\* text is a neutral one or a word of the list
ReplaceWith(flt, replace_with) == [flt EXCEPT !.replace_with = replace_with]

ScanProfanity ==
    {ProfanityFilter(FALSE, <<"damn", "hell">>, "mute_audio"),
     ProfanityFilter(TRUE, <<>>, "mute_audio"),
     ProfanityFilter(TRUE, <<"damn", "hell">>, "mute_audio"),
     ProfanityFilter(TRUE, <<"damn">>, "replace_text"),
     ReplaceWith(ProfanityFilter(TRUE, <<"damn", "hell">>, "mute_audio"), "Hell"),
     ReplaceWith(ProfanityFilter(TRUE, <<"damn">>, "mute_audio"), "hell")}

ScanNudity ==
    {ContentFilter(FALSE, 75, "blur_region"), ContentFilter(TRUE, 85, "blur_region")}

ScanViolence ==
    {ContentFilter(FALSE, 65, "skip_scene"), ContentFilter(TRUE, 65, "skip_scene"),
     ContentFilter(TRUE, 90, "mute_audio")}

ScanSubtitles ==
    {MissingSubtitle, SubtitleFile(<<CueInside, CueTwo, CueClean>>),
     SubtitleFile(<<CueClean>>), SubtitleFile(<<CueDamn>>)}

ScanVideos == {MissingVideo, PlaceholderVideo, UnopenableVideo, RealVideo(30, 32)}

\* the subtitle inputs vary with the video inputs fixed, and the other way round
InitScan ==
    \/ InitWith([profanity : ScanProfanity,
                 nudity : {ContentFilter(FALSE, 75, "blur_region")},
                 violence : {ContentFilter(TRUE, 65, "skip_scene")}],
                ScanSubtitles, {RealVideo(30, 32)}, {AbsentFile})
    \/ InitWith([profanity : {ProfanityFilter(TRUE, <<"damn", "hell">>, "mute_audio")},
                 nudity : ScanNudity, violence : ScanViolence],
                {SubtitleFile(<<CueDamn>>)}, ScanVideos, {AbsentFile})

NextScan == ParseSubtitles \/ ScanVideo

\* the two scanners called on their own over many configurations and inputs
SpecScan == InitScan /\ [][NextScan]_vars

-----------------------------------------------------------------------------
(* Properties *)

Count(seq, x) == Cardinality({k \in 1..Len(seq) : seq[k] = x})
Last(seq) == seq[Len(seq)]
IsSorted(acts) ==
    \A i \in 1..Len(acts), j \in 1..Len(acts) :
        i < j => acts[i].start_time <= acts[j].start_time
Overlap(a, b) == a.start_time < b.end_time /\ b.start_time < a.end_time
IsActive(a, t) == a.start_time <= t /\ t < a.end_time
IsSkip(a) ==
    /\ a.type \in {"nudity_detection", "violence_detection"}
    /\ a.action_suggestion = "skip_scene"
IsVideoEvent(a) == a.type \in {"nudity_detection", "violence_detection"}
\* the build has written the metadata file the controller reads
Persisted == build_pc = "done" /\ file = JsonFile(JsonDump(metadata))
\* the last tick applied an action
JustApplied == applied # <<>> /\ last_action_time = current_playback_time

\* C1: one call of _check_and_apply_actions applies at most one action,
\* whatever the timeline and the clock value, also when several events are
\* active at that value.
C1_AtMostOneActionPerTick == [][Len(applied') <= Len(applied) + 1]_vars

\* a tick has applied one event while the event after it was active as well
\* and stays ahead of the cursor
C1_Witness ==
    /\ ctl = "Idle"
    /\ JustApplied
    /\ current_action_index = Last(applied) + 1
    /\ current_action_index < Len(actions)
    /\ IsActive(actions[current_action_index + 1], last_action_time)

\* C2 as stated: when the replay is Finished every event of the timeline has
\* been applied exactly once.
C2_EveryEventAppliedExactlyOnce ==
    ctl = "Finished" =>
        \A i \in 0..(Len(actions) - 1) : Count(applied, i) = 1

\* C2 as amended: no event is applied twice, and when the replay of a
\* timeline whose events all have start_time <= end_time is Finished the
\* cursor is at the end of the timeline: every event was applied or was
\* passed over as stale.
C2_AtMostOnceAndAllPassed ==
    /\ \A i \in 0..(Len(actions) - 1) : Count(applied, i) <= 1
    /\ \A k \in 1..Len(applied) : applied[k] \in 0..(Len(actions) - 1)
    /\ (/\ ctl = "Finished"
        /\ \A i \in 1..Len(actions) : actions[i].start_time <= actions[i].end_time)
           => current_action_index = Len(actions)

\* a finished replay that applied some events and passed over others
C2_Witness ==
    /\ ctl = "Finished"
    /\ applied # <<>>
    /\ Len(applied) < Len(actions)

\* C3: the cursor never moves back: after every tick current_action_index is
\* at least what it was before.
C3_CursorNonDecreasing ==
    [][current_action_index' >= current_action_index]_vars

\* ticks have moved the cursor past a stale event and past an applied one
C3_Witness ==
    /\ ctl = "Idle"
    /\ Len(applied) = 1
    /\ current_action_index >= 2
    /\ applied[1] >= 1

VideoActionsOf(acts) == SelectSeq(acts, IsVideoEvent)

C6_ActionsSorted ==
    /\ build_pc = "done" => IsSorted(metadata.actions)
    /\ IsSorted(actions)

\* a controller built on a file that was not in time order, after a build
\* whose scanners delivered events out of time order
C6_Witness ==
    /\ build_pc = "done"
    /\ Len(metadata.actions) >= 2
    /\ Len(subtitle.cues) >= 2
    /\ subtitle.cues[1].start > subtitle.cues[2].start
    /\ ctl = "Idle"
    /\ Len(actions) >= 2
    /\ file = FileUnsorted

\* C7: a controller constructed on the file the build has written walks the
\* persisted actions: the same events in the same order.
C7_RoundTrip ==
    (Persisted /\ ctl = "Idle") => actions = metadata.actions

\* a persisted list with subtitle and video events, loaded by a controller
C7_Witness ==
    /\ Persisted
    /\ ctl = "Idle"
    /\ \E i \in 1..Len(actions) : actions[i].type = "profanity_mute"
    /\ \E i \in 1..Len(actions) : IsVideoEvent(actions[i])

\* C8: a tick that applies a nudity or violence event with skip_scene leaves
\* the cursor one past that event and the real clock at the event's end, and
\* the tick after it reads a clock value that is at least the event's end.
C8_SkipJumpsToEnd ==
    [][/\ (ctl' = "Running" /\ applied' # applied /\ IsSkip(actions'[Last(applied') + 1]))
           => /\ current_action_index' = Last(applied') + 1
              /\ current_playback_time' + skip_slept'
                     = actions'[Last(applied') + 1].end_time
       /\ (ctl = "Running" /\ JustApplied /\ IsSkip(actions[Last(applied) + 1])
             /\ current_playback_time' # current_playback_time)
           => current_playback_time' >= actions[Last(applied) + 1].end_time
      ]_vars

\* the tick after a skipped scene: on a timeline of one event the cursor is 1
\* and the clock has passed the event's end
C8_Witness ==
    /\ ctl = "Running"
    /\ Len(actions) = 1
    /\ applied = <<0>>
    /\ IsSkip(actions[1])
    /\ current_action_index = 1
    /\ current_playback_time >= actions[1].end_time
    /\ last_action_time < actions[1].end_time

\* C9: with no metadata file, or one whose content cannot be parsed, the
\* construction of the controller does not abort, its list of actions is
\* empty and the replay applies nothing.
C9_UnreadableMetadataPlaysUnfiltered ==
    (ctl # "none" /\ file.kind \in {"absent", "corrupt"})
        => /\ ctl # "crashed"
           /\ actions = <<>>
           /\ applied = <<>>

\* C10: once stop() has been called no further tick is processed and no
\* further action is applied.
C10_NothingAfterStop ==
    [][stop_logged =>
          /\ current_playback_time' = current_playback_time
          /\ applied' = applied
          /\ ctl' \in {ctl, "Finished"}]_vars

\* C11: stop() raises no error in any state of the controller and changes
\* nothing of the controller; a second call leaves the state the first call
\* left.
C11_StopSafeIdempotent ==
    [][Stop => /\ ctl' = ctl
               /\ ctl_vars' = ctl_vars
               /\ (stop_logged => vars' = vars)]_vars

\* stop() has been called while the replay was running and had applied an
\* action, where it can be called again
C11_Witness ==
    /\ stop_logged
    /\ ctl = "Running"
    /\ applied # <<>>
    /\ ENABLED Stop

\* C12 as stated: once the clock read by a tick exceeds the latest end_time of
\* a timeline plus the trailing buffer, no further tick is processed.
C12_FinishedPastLastEnd ==
    [][(/\ ctl = "Running"
        /\ actions # <<>>
        /\ \A i \in 1..Len(actions) :
              current_playback_time > actions[i].end_time + TRAILING_BUFFER)
       => current_playback_time' = current_playback_time]_vars

\* C12 as amended: the duration of the replay is the larger of 60 seconds and
\* the latest end_time plus the trailing buffer (60 seconds without events);
\* a tick is processed only while the clock value of the tick before is
\* below the duration, the loop is left only for Finished and only once a
\* tick has read a value at or past the duration, and a running replay does
\* reach Finished.
C12_FinishedAtDuration ==
    /\ [](ctl \in {"Running", "Finished"} =>
            /\ simulated_duration >= SIMULATED_DURATION
            /\ \A i \in 1..Len(actions) :
                  simulated_duration >= actions[i].end_time + TRAILING_BUFFER
            /\ \/ simulated_duration = SIMULATED_DURATION
               \/ \E i \in 1..Len(actions) :
                     simulated_duration = actions[i].end_time + TRAILING_BUFFER)
    /\ [][ctl = "Running" =>
            /\ current_playback_time' # current_playback_time
                  => current_playback_time < simulated_duration
            /\ ctl' # "Running"
                  => /\ ctl' = "Finished"
                     /\ current_playback_time >= simulated_duration]_vars
    /\ (ctl = "Running") ~> (ctl = "Finished")

\* a replay has finished at 60 seconds over a timeline whose last event ended
\* long before, having applied it
C12_Witness ==
    /\ ctl = "Finished"
    /\ applied # <<>>
    /\ simulated_duration = SIMULATED_DURATION
    /\ current_playback_time >= simulated_duration
    /\ \A i \in 1..Len(actions) :
          actions[i].end_time + TRAILING_BUFFER < SIMULATED_DURATION \div 2

\* the word occurs in the text on word boundaries, whatever its case
Occurs(w, content) == \E k \in 1..Len(content) : Lower(content[k]) = Lower(w)

\* parse_and_filter_subtitles was called on an existing file with the
\* profanity filter enabled and a word list
ParsedWithWords ==
    /\ subtitle_scan.called
    /\ subtitle.exists
    /\ filters.profanity.enabled
    /\ filters.profanity.word_list # <<>>

\* the scan has an event of the cue for the word, spanning the cue
HasEventFor(cue, w) ==
    \E e \in 1..Len(subtitle_scan.actions) :
        /\ subtitle_scan.actions[e].type = "profanity_mute"
        /\ subtitle_scan.actions[e].start_time = cue.start
        /\ subtitle_scan.actions[e].end_time = cue.end
        /\ Lower(subtitle_scan.actions[e].matched_word) = Lower(w)

HasEventOf(cue) ==
    \E e \in 1..Len(subtitle_scan.actions) :
        /\ subtitle_scan.actions[e].start_time = cue.start
        /\ subtitle_scan.actions[e].end_time = cue.end
        /\ subtitle_scan.actions[e].original_text = cue.content

\* the cue contains none of the configured words on word boundaries
IsCleanCue(cue) ==
    \A j \in 1..Len(filters.profanity.word_list) :
        ~Occurs(filters.profanity.word_list[j], cue.content)

\* C14: for a cue that contains none of the configured words the subtitle scan
\* has no event, and the filtered cue is the original one: same index, time
\* span and text.
C14_CleanCueUntouched ==
    (subtitle_scan.called /\ subtitle.exists) =>
        /\ Len(subtitle_scan.filtered) = Len(subtitle.cues)
        /\ \A i \in 1..Len(subtitle.cues) :
              IsCleanCue(subtitle.cues[i])
              => /\ ~HasEventOf(subtitle.cues[i])
                 /\ subtitle_scan.filtered[i] = subtitle.cues[i]

\* a scan with events for one cue and none for another, which holds "hello"
\* while "hell" is a configured word
C14_Witness ==
    /\ ParsedWithWords
    /\ subtitle_scan.actions # <<>>
    /\ Occurs("hell", filters.profanity.word_list)
    /\ \E i \in 1..Len(subtitle.cues) :
          /\ IsCleanCue(subtitle.cues[i])
          /\ Occurs("hello", subtitle.cues[i].content)
          /\ subtitle_scan.filtered[i] = subtitle.cues[i]

\* the positions of the cue's text that hold a configured word
Occurrences(cue) ==
    {k \in 1..Len(cue.content) :
        \E j \in 1..Len(filters.profanity.word_list) :
            Lower(filters.profanity.word_list[j]) = Lower(cue.content[k])}

\* the events of the scan taken from the cue
EventsOf(cue) ==
    {e \in 1..Len(subtitle_scan.actions) :
        /\ subtitle_scan.actions[e].start_time = cue.start
        /\ subtitle_scan.actions[e].end_time = cue.end
        /\ subtitle_scan.actions[e].original_text = cue.content}

\* C15: the subtitle scan has as many events of a cue as the cue has matched
\* occurrences, and every event of the scan spans the whole of its cue.
C15_OneEventPerOccurrence ==
    ParsedWithWords =>
        /\ \A i \in 1..Len(subtitle.cues) :
              Cardinality(EventsOf(subtitle.cues[i]))
                  = Cardinality(Occurrences(subtitle.cues[i]))
        /\ \A e \in 1..Len(subtitle_scan.actions) :
              \E i \in 1..Len(subtitle.cues) :
                  /\ e \in EventsOf(subtitle.cues[i])
                  /\ Occurs(subtitle_scan.actions[e].matched_word,
                            subtitle.cues[i].content)

\* a scan of a cue with two occurrences: two events, both with the cue's span
C15_Witness ==
    /\ ParsedWithWords
    /\ \E i \in 1..Len(subtitle.cues) :
          /\ Cardinality(Occurrences(subtitle.cues[i])) = 2
          /\ Cardinality(EventsOf(subtitle.cues[i])) = 2
          /\ \A e \in EventsOf(subtitle.cues[i]) :
                /\ subtitle_scan.actions[e].start_time = 4 * Second
                /\ subtitle_scan.actions[e].end_time = 6 * Second

\* C16: with the profanity filter disabled or its word list empty, the
\* subtitle scan returns no events and its filtered cues are the original
\* cues, those of the file.
C16_DisabledOrEmptyScansNothing ==
    (/\ subtitle_scan.called
     /\ ~filters.profanity.enabled \/ filters.profanity.word_list = <<>>)
    => /\ subtitle_scan.actions = <<>>
       /\ subtitle_scan.filtered = subtitle_scan.original
       /\ subtitle.exists => subtitle_scan.original = subtitle.cues

\* a scan with the filter disabled of a file whose cues hold configured words
C16_Witness ==
    /\ subtitle_scan.called
    /\ ~filters.profanity.enabled
    /\ subtitle.exists
    /\ \E i \in 1..Len(subtitle.cues) : ~IsCleanCue(subtitle.cues[i])
    /\ subtitle_scan.filtered = subtitle.cues

\* C17: with the nudity and the violence filter both disabled, the video scan
\* returns an empty list, has evaluated no sample instant and has not handed
\* the file to cv2.VideoCapture.
C17_BothDisabledNoScan ==
    (/\ video_scan.called
     /\ ~filters.nudity.enabled
     /\ ~filters.violence.enabled)
    => /\ video_scan.actions = <<>>
       /\ video_scan.scores = <<>>
       /\ ~video_scan.opened
       /\ ~video_scan.simulated

\* a scan with both filters disabled of a video that is there and would open
C17_Witness ==
    /\ video_scan.called
    /\ ~filters.nudity.enabled
    /\ ~filters.violence.enabled
    /\ video.exists /\ video.opens /\ video.frame_count > 0
    /\ video_scan.actions = <<>>

\* the events of the video scan of one type that start at second s
ScanEventsAt(type, s) ==
    {e \in 1..Len(video_scan.actions) :
        /\ video_scan.actions[e].type = type
        /\ video_scan.actions[e].start_time = s * Second}

\* the category triggers at second s: it is enabled and its score reaches its
\* threshold
Triggers(settings, score) ==
    settings.enabled /\ score >= settings.detection_threshold

\* C18: for every sample instant and either category the video scan has one
\* event starting there if the category is enabled and its score at the
\* instant is at least its threshold, and none otherwise; every event runs
\* for one second from a sample instant, so adjacent triggering samples stay
\* separate events.
C18_EventIffScoreReachesThreshold ==
    video_scan.called =>
        /\ \A s \in 0..(Len(video_scan.scores) - 1) :
              /\ Cardinality(ScanEventsAt("nudity_detection", s))
                    = IF Triggers(filters.nudity, video_scan.scores[s + 1].nudity)
                      THEN 1 ELSE 0
              /\ Cardinality(ScanEventsAt("violence_detection", s))
                    = IF Triggers(filters.violence, video_scan.scores[s + 1].violence)
                      THEN 1 ELSE 0
        /\ \A e \in 1..Len(video_scan.actions) :
              /\ video_scan.actions[e].type \in {"nudity_detection", "violence_detection"}
              /\ video_scan.actions[e].end_time
                    = video_scan.actions[e].start_time + 1 * Second
              /\ \E s \in 0..(Len(video_scan.scores) - 1) :
                    video_scan.actions[e].start_time = s * Second

\* a scan in which a score equal to the threshold triggered, with an event of
\* the same type at the next second as well
C18_Witness ==
    /\ video_scan.called
    /\ \E s \in 0..(Len(video_scan.scores) - 2) :
          /\ video_scan.scores[s + 1].violence = filters.violence.detection_threshold
          /\ Cardinality(ScanEventsAt("violence_detection", s)) = 1
          /\ Cardinality(ScanEventsAt("violence_detection", s + 1)) = 1
    /\ \E s \in 0..(Len(video_scan.scores) - 1) :
          /\ filters.nudity.enabled
          /\ video_scan.scores[s + 1].nudity >= 0
          /\ video_scan.scores[s + 1].nudity < filters.nudity.detection_threshold
          /\ ScanEventsAt("nudity_detection", s) = {}

\* the video scan fell back to the simulated properties with a category enabled
ScannedSimulated == video_scan.called /\ video_scan.simulated

\* the filter settings of the category of a table entry, and its event type
SettingsOf(type) == IF type = "nudity" THEN filters.nudity ELSE filters.violence
EventTypeOf(type) ==
    IF type = "nudity" THEN "nudity_detection" ELSE "violence_detection"

C20_MissingSubtitleNotFatal ==
    (build_pc = "done" /\ subtitle.given /\ ~subtitle.exists) =>
        /\ ~subtitle_scan.called
        /\ video_scan.called
              <=> (video.exists /\ (filters.nudity.enabled \/ filters.violence.enabled))
        /\ metadata.filters_applied
              = [profanity |-> filters.profanity.enabled,
                 nudity |-> filters.nudity.enabled,
                 violence |-> filters.violence.enabled]
        /\ IsSorted(metadata.actions)
        /\ Len(metadata.actions) = Len(video_scan.actions)
        /\ \A e \in 1..Len(video_scan.actions) :
              \E k \in 1..Len(metadata.actions) :
                  metadata.actions[k] = video_scan.actions[e]
        /\ Persisted \/ file \in {AbsentFile, CorruptFile, FileUnsorted}

\* a build with a missing subtitle file and the profanity filter enabled that
\* returned and saved the events of the video scan
C20_Witness ==
    /\ build_pc = "done"
    /\ subtitle = MissingSubtitle
    /\ filters.profanity.enabled
    /\ filters.profanity.word_list # <<>>
    /\ Len(metadata.actions) >= 2
    /\ metadata.actions = video_scan.actions
    /\ Persisted

\* the combinations of type and suggested action that _apply_action simulates
IsKnownCombination(a) ==
    \/ a.type = "profanity_mute" /\ Suggestion(a) \in {"mute_audio", "replace_text"}
    \/ a.type = "nudity_detection" /\ Suggestion(a) \in {"blur_region", "skip_scene"}
    \/ a.type = "violence_detection" /\ Suggestion(a) \in {"skip_scene", "mute_audio"}

\* the last tick applied an event of an unknown type or combination
UnknownJustApplied ==
    JustApplied /\ ~IsKnownCombination(actions[Last(applied) + 1])

\* C21: applying an event whose type, or whose combination of type and
\* suggested action, is not one the controller simulates raises nothing and
\* does nothing to the player (no mute, no blur, no text swap, no sleep that
\* jumps the clock); the replay goes on with the ticks that follow, up to its
\* end.
C21_UnknownActionHarmless ==
    /\ [](\A k \in 1..Len(applied) :
            LET a == actions[applied[k] + 1]
            IN  ~IsKnownCombination(a)
                    => \A t \in a.start_time..(a.end_time - 1) :
                            apply_action(a, t) = [effect |-> "none", slept |-> 0])
    /\ [](UnknownJustApplied => (skip_slept = 0 /\ ctl # "crashed"))
    /\ ((ctl = "Running" /\ UnknownJustApplied) ~> (ctl = "Finished"))

\* a finished replay that applied an event of an unknown type with a
\* skip_scene suggestion and, at a later tick, a nudity event with an unknown
\* suggestion
C21_Witness ==
    /\ ctl = "Finished"
    /\ applied = <<0, 1>>
    /\ actions[1].type = "gore_detection"
    /\ Suggestion(actions[1]) = "skip_scene"
    /\ actions[2].type = "nudity_detection"
    /\ ~IsKnownCombination(actions[2])

\* C22: a tick whose clock value t is at most last_action_time + 0.05 s does
\* nothing: it applies no action and leaves the cursor and last_action_time
\* as they are, whatever events are active at t.
C22_SuppressedTickIsNoOp ==
    [][(/\ ctl = "Idle"
        /\ ctl' = "Idle"
        /\ current_playback_time' <= last_action_time + EPSILON)
          => /\ current_action_index' = current_action_index
             /\ last_action_time' = last_action_time
             /\ applied' = applied
      ]_vars

\* after a tick that applied an event, a tick within 0.05 s of it has left
\* the event at the cursor unapplied although it is active at that tick
C22_Witness ==
    /\ ctl = "Idle"
    /\ applied # <<>>
    /\ current_playback_time = last_action_time + EPSILON
    /\ current_action_index = Last(applied) + 1
    /\ current_action_index < Len(actions)
    /\ IsActive(actions[current_action_index + 1], current_playback_time)

\* the first index from idx on whose event ends after t, or the length of the
\* timeline
FirstUnexpired(acts, idx, t) ==
    LET later == {j \in idx..(Len(acts) - 1) : acts[j + 1].end_time > t}
    IN  IF later = {} THEN Max(idx, Len(acts))
        ELSE CHOOSE j \in later : \A k \in later : j <= k

\* every event of the timeline ends after it starts, as the scanners' events do
WellFormedTimeline ==
    \A i \in 1..Len(actions) : actions[i].start_time < actions[i].end_time

\* a step of the stepped clock, on a timeline of well-formed events, that the
\* test against last_action_time lets through
UnsuppressedTick ==
    /\ ctl = "Idle"
    /\ ctl' = "Idle"
    /\ WellFormedTimeline
    /\ current_playback_time' > last_action_time + EPSILON

PlaybackTick ==
    /\ ctl' = "Running"
    /\ (ctl = "Idle" \/ current_playback_time' > current_playback_time)

\* the events the cursor goes past in this step without applying them
PassedOver ==
    {j \in current_action_index..(current_action_index' - 1) :
        ~(applied' # applied /\ j = Last(applied'))}

\* C25 as stated: an event that was active at the tick that applied another
\* event is applied on a later tick: the cursor never goes past it without
\* applying it.
C25_SimultaneousAllApplied ==
    [][\A j \in PassedOver :
          ~(applied # <<>> /\ IsActive(actions[j + 1], last_action_time))
      ]_vars

\* C25 as amended: of several events active at one tick the one at the cursor
\* is applied on that tick; the cursor reaches each remaining one on a later
\* tick, and applies it if it is still active at that tick and goes past it
\* unapplied if its window has ended by then.
C25_SimultaneousAppliedWhileActive ==
    [][PlaybackTick =>
        LET t == current_playback_time'
        IN  /\ \A j \in PassedOver : actions[j + 1].end_time <= t
            /\ (/\ t > last_action_time + EPSILON
                /\ current_action_index < Len(actions)
                /\ IsActive(actions[current_action_index + 1], t))
                  => /\ applied' = Append(applied, current_action_index)
                     /\ current_action_index' = current_action_index + 1
      ]_vars

\* two events that start together, applied at two successive ticks
C25_Witness ==
    /\ ctl = "Running"
    /\ JustApplied
    /\ Len(applied) >= 2
    /\ Last(applied) = applied[Len(applied) - 1] + 1
    /\ actions[Last(applied) + 1].start_time = actions[Last(applied)].start_time

\* a group of the report of the type of a and b that spans both
GroupSpans(a, b) ==
    \E g \in 1..Len(grouped_actions) :
        /\ grouped_actions[g].type = a.type
        /\ grouped_actions[g].start_time <= a.start_time
        /\ grouped_actions[g].end_time >= Max(a.end_time, b.end_time)

\* in the sorted video actions the events k and k + 2 are of one type, k + 2
\* starts within the tolerance of the end of k, and k + 1 is of the other type
Interleaved(va, k) ==
    /\ va[k].type = va[k + 2].type
    /\ va[k + 1].type # va[k].type
    /\ va[k + 2].start_time <= va[k].end_time + MERGE_TOLERANCE

\* C26 as stated: the grouping works per category: two video events of one
\* type of which the later starts within the tolerance of the earlier one's
\* end are in one group, also when an event of the other type lies between
\* them in the order of start times; no group holds events of two types.
C26_GroupedPerCategory ==
    build_pc = "done" =>
        LET va == VideoActionsOf(metadata.actions)
        IN  /\ \A i \in 1..Len(va), j \in 1..Len(va) :
                  (/\ i < j
                   /\ va[i].type = va[j].type
                   /\ va[j].start_time <= va[i].end_time + MERGE_TOLERANCE)
                     => GroupSpans(va[i], va[j])
            /\ \A i \in 1..Len(va) : GroupSpans(va[i], va[i])

\* C26 as amended: the grouping is one pass over the video events of both
\* types in the order of start times, with one open group: an event joins the
\* open group when it has the group's type and starts within the tolerance of
\* the group's end, and any other event closes it. An event of the other type
\* between two events of one type therefore separates them into two groups,
\* also when they are within the tolerance; every event lies in a group of
\* its own type and no group holds events of two types.
C26_GroupedByConsecutiveRuns ==
    build_pc = "done" =>
        LET va == VideoActionsOf(metadata.actions)
            breaks == {k \in 1..(Len(va) - 1) :
                          \/ va[k + 1].type # va[k].type
                          \/ va[k + 1].start_time > va[k].end_time + MERGE_TOLERANCE}
        IN  /\ \A i \in 1..Len(va) : GroupSpans(va[i], va[i])
            /\ Len(grouped_actions)
                  = (IF va = <<>> THEN 0 ELSE 1 + Cardinality(breaks))
            /\ \A k \in 1..(Len(va) - 2) :
                  Interleaved(va, k) => ~GroupSpans(va[k], va[k + 2])

\* a build whose scan found a nudity event, a violence event and a nudity
\* event at successive places of the order of start times, the two nudity
\* events one second apart
C26_Witness ==
    /\ build_pc = "done"
    /\ Len(grouped_actions) >= 3
    /\ \E k \in 1..(Len(VideoActionsOf(metadata.actions)) - 2) :
          /\ Interleaved(VideoActionsOf(metadata.actions), k)
          /\ VideoActionsOf(metadata.actions)[k].type = "nudity_detection"

\* C27: whatever the sequence of clock values of the ticks, decreasing ones
\* included, no tick moves the cursor back and no event is applied a second
\* time.
C27_OutOfOrderTicksSafe ==
    [][(ctl = "Idle" /\ ctl' = "Idle") =>
          /\ current_action_index' >= current_action_index
          /\ Len(applied') >= Len(applied)
          /\ \A k \in 1..Len(applied) : applied'[k] = applied[k]
          /\ \A k \in 1..Len(applied') : Count(applied', applied'[k]) = 1
      ]_vars

\* a tick whose clock value lies in the window of an event the cursor has gone
\* past at a later clock value: the event is not applied
C27_Witness ==
    /\ ctl = "Idle"
    /\ applied # <<>>
    /\ current_action_index = Len(actions)
    /\ Last(applied) < Len(actions) - 1
    /\ current_playback_time > last_action_time + EPSILON
    /\ IsActive(actions[Len(actions)], current_playback_time)

\* C28: in every reachable state of the controller the cursor lies between 0
\* and the length of the timeline, and the ticks have read the timeline only
\* at indices from 0 to the length less one: every event applied was read at
\* such an index, below the cursor.
C28_CursorInBounds ==
    /\ current_action_index \in 0..Len(actions)
    /\ \A k \in 1..Len(applied) :
          /\ applied[k] \in 0..(Len(actions) - 1)
          /\ applied[k] < current_action_index

\* the cursor at the length of a timeline of several events, the last of
\* which was read and applied
C28_Witness ==
    /\ ctl = "Running"
    /\ Len(actions) >= 2
    /\ current_action_index = Len(actions)
    /\ applied # <<>>
    /\ Last(applied) = Len(actions) - 1

\* the last tick applied a skip_scene at the clock value t = last_action_time,
\* and the window of event j lies inside the span skipped: it starts after t
\* and ends at or before the end of the skipped event
SkippedOver(j) ==
    /\ ctl = "Running"
    /\ JustApplied
    /\ IsSkip(actions[Last(applied) + 1])
    /\ j < Len(actions)
    /\ actions[j + 1].start_time > last_action_time
    /\ actions[j + 1].end_time <= actions[Last(applied) + 1].end_time

\* C29: once a skip_scene has fired at t for an event that ends at e, every
\* event whose window lies inside the skipped span (start > t, end <= e) is
\* never applied, and the tick that follows moves the cursor past it. Such an
\* event comes after the skipped one in the timeline, events are applied in
\* the order of the timeline, and every event applied after the skip ends
\* after e.
C29_SkippedSpanNeverApplied ==
    /\ [](\A k \in 1..Len(applied), m \in 1..Len(applied) :
            k < m =>
              /\ applied[k] < applied[m]
              /\ IsSkip(actions[applied[k] + 1])
                    => actions[applied[m] + 1].end_time
                           > actions[applied[k] + 1].end_time)
    /\ [](\A j \in 0..(Len(actions) - 1) :
            SkippedOver(j) => (j > Last(applied) /\ Count(applied, j) = 0))
    /\ [][\A j \in 0..(Len(actions) - 1) :
            (SkippedOver(j) /\ current_playback_time' > current_playback_time)
                => /\ current_action_index' > j
                   /\ Count(applied', j) = 0
         ]_vars

\* after the skip of a scene the cursor is at the end of the timeline, past
\* a cue inside the scene that was not applied
C29_Witness ==
    /\ ctl = "Running"
    /\ Len(actions) = 3
    /\ applied = <<0, 1>>
    /\ IsSkip(actions[2])
    /\ current_action_index = 3
    /\ actions[3].start_time > last_action_time
    /\ actions[3].end_time <= actions[2].end_time
    /\ current_playback_time >= actions[2].end_time

\* the workers that are inside _process_media_task and have not yet scheduled
\* the callback that enables the button
Processing == {w \in 1..Len(workers) : workers[w] \in {"build", "replay", "finally"}}

\* the worker threads that have not ended
Alive == {w \in 1..Len(workers) : workers[w] # "ended"}

\* C30 as stated: at most one worker thread is alive at any time: no run is
\* started before the thread of the run before it has ended.
C30_OneWorkerThreadAlive == Cardinality(Alive) <= 1

\* C30 as amended: at most one worker is processing (building or replaying,
\* up to the call that schedules the enabling of the button); while one is,
\* the button is disabled and no enabling callback is pending, so no click
\* starts a run; a run starts only when no worker is processing, while the
\* thread of the run before it may still be returning.
C30_OneWorkerProcessing ==
    /\ [](Cardinality(Processing) <= 1)
    /\ [](Processing # {} => (process_button = "disabled" /\ tk_after = 0))
    /\ [][Len(workers') > Len(workers) => Processing = {}]_vars

\* a second run is processing, with the button disabled and a click waiting
\* that will be dropped
C30_Witness ==
    /\ Len(workers) = 2
    /\ workers[1] = "ended"
    /\ workers[2] \in {"build", "replay"}
    /\ process_button = "disabled"
    /\ tk_clicks > 0

====
